---- MODULE Spec2Model ----
(***************************************************************************)
(* Janggi board container (janggi/base/board.py), the leaper patterns of   *)
(* classes/piece.py and the coordinate check of classes/grid.py.           *)
(*                                                                         *)
(* Piece objects live in `heap` (index = object identity); a grid cell     *)
(* holds an object identity or None.  A Board is a record of its three     *)
(* metadata fields and its grid.                                           *)
(***************************************************************************)
EXTENDS Integers, Sequences, FiniteSets, TLC

VARIABLES heap, boards, ops, last, touched

vars == <<heap, boards, ops, last, touched>>

(* ------------------------------ bounds -------------------------------- *)

\* Number of Board operations applied after the start board exists.
MaxOps == 3
\* Number of pieces placed around the leaper under test.
MaxBlockers == 2
\* Largest number of '/'-separated rows of a notation input.
MaxFenRows == 11

(* ----------------------------- constants ------------------------------ *)

NUM_ROWS == 10
NUM_COLS == 9
MIN_ROW == 0
MIN_COL == 0
MAX_ROW == NUM_ROWS - 1
MAX_COL == NUM_COLS - 1

None == 0
NoCamp == "None"
Camps == {"CHO", "HAN"}
Formations == {"OUTER_ELEPHANT", "LEFT_ELEPHANT", "RIGHT_ELEPHANT", "INNER_ELEPHANT"}
PieceTypes == {"GENERAL", "GUARD", "HORSE", "ELEPHANT", "CHARIOT", "CANNON", "SOLDIER"}

Coords == (MIN_ROW..MAX_ROW) \X (MIN_COL..MAX_COL)

\* for row in range(MIN_ROW, MAX_ROW+1): for col in range(MIN_COL, MAX_COL+1)
RowMajor == [k \in 1..(NUM_ROWS * NUM_COLS) |->
               <<MIN_ROW + ((k - 1) \div NUM_COLS), MIN_COL + ((k - 1) % NUM_COLS)>>]

(* ------------------------------- Piece -------------------------------- *)

\* Piece(piece_type) / Piece(piece_type, camp)
Piece(pieceType, camp) == [pieceType |-> pieceType, camp |-> camp]

\* termcolor.colored(text, color): "\033[<code>m" + text + "\033[0m", as characters
colored(text, code) ==
    <<"ESC", "[">> \o code \o <<"m">> \o text \o <<"ESC", "[", "0", "m">>

\* pieceToStr: the glyphs are named, WANG for U+738B, SHI for U+58EB, MA for
\* U+99AC, XIANG for U+8C61, CHE for U+8ECA, BAO for U+5305, ZU for U+5352.
pieceToStr(pieceType) ==
    CASE pieceType = "GENERAL"  -> "WANG"
      [] pieceType = "GUARD"    -> "SHI"
      [] pieceType = "HORSE"    -> "MA"
      [] pieceType = "ELEPHANT" -> "XIANG"
      [] pieceType = "CHARIOT"  -> "CHE"
      [] pieceType = "CANNON"   -> "BAO"
      [] pieceType = "SOLDIER"  -> "ZU"

\* Piece.__str__, as the sequence of characters of the string
str(p) ==
    LET printStr == <<pieceToStr(p.pieceType)>>
    IN  IF p.camp = "CHO" THEN colored(printStr, <<"3", "2">>)
        ELSE IF p.camp = "HAN" THEN colored(printStr, <<"3", "1">>)
        ELSE printStr

\* set(s) of a string: its characters
CharSet(s) == {s[i] : i \in DOMAIN s}

\* set('<U+695A><U+6F22>'): the two glyphs is_check looks for, named CHU and HAN_GLYPH
KingGlyphs == {"CHU", "HAN_GLYPH"}

(* ------------------------------- Board -------------------------------- *)

\* np.full((NUM_ROWS, NUM_COLS), None)
EmptyGrid == [row \in MIN_ROW..MAX_ROW |-> [col \in MIN_COL..MAX_COL |-> None]]

\* Board.__init__
Board(cho_formation, han_formation, bottom_camp) ==
    [cho_formation |-> cho_formation, han_formation |-> han_formation,
     bottom_camp |-> bottom_camp, grid |-> EmptyGrid]

\* self.__board[row][col]
get(g, loc) == g[loc[1]][loc[2]]

put(g, loc, piece) == [g EXCEPT ![loc[1]][loc[2]] = piece]

remove(g, loc) == [g EXCEPT ![loc[1]][loc[2]] = None]

\* a reversal of the rows alone
flipRowsOnly(g) ==
    [row \in MIN_ROW..MAX_ROW |-> [col \in MIN_COL..MAX_COL |-> g[MAX_ROW - row][col]]]

\* np.flip over both axes
flip(g) ==
    [row \in MIN_ROW..MAX_ROW |-> [col \in MIN_COL..MAX_COL |-> g[MAX_ROW - row][MAX_COL - col]]]

\* merge(self, board): overwrite with every occupied cell of `other`
merge(g, other) ==
    [row \in MIN_ROW..MAX_ROW |-> [col \in MIN_COL..MAX_COL |->
        IF get(other, <<row, col>>) # None THEN get(other, <<row, col>>) ELSE g[row][col]]]

\* mark_camp: every Piece object referenced by the grid gets the camp
mark_camp(h, g, camp) ==
    LET marked == {g[loc[1]][loc[2]] : loc \in Coords}
    IN  [i \in DOMAIN h |-> IF i \in marked THEN [h[i] EXCEPT !.camp = camp] ELSE h[i]]

\* copy: a new Board with self.__board.copy(), a new array of the same references
copy(b) == [cho_formation |-> b.cho_formation, han_formation |-> b.han_formation,
            bottom_camp |-> b.bottom_camp, grid |-> [row \in MIN_ROW..MAX_ROW |->
                        [col \in MIN_COL..MAX_COL |-> b.grid[row][col]]]]

\* the same with the removal of origin left out
moveBodyKeepsOrigin(g, origin, dest) ==
    [grid |-> put(g, dest, get(g, origin)), ret |-> get(g, dest), err |-> "none"]

\* move without its assert: the three statements after it
moveBody(g, origin, dest) ==
    LET piece_to_remove == get(g, dest)
        piece == get(g, origin)
    IN  [grid |-> remove(put(g, dest, piece), origin), ret |-> piece_to_remove,
         err |-> "none"]

\* move with its assert stripped
moveNoAssert(g, origin, dest) == moveBody(g, origin, dest)

\* move: assert, then the body
move(g, origin, dest) ==
    IF get(g, origin) = None
    THEN [grid |-> g, ret |-> None, err |-> "AssertionError"]
    ELSE moveBody(g, origin, dest)

\* is_check: one row-major scan; king_location starts as the empty list and
\* is overwritten at every own piece whose string holds one of KingGlyphs
is_check(h, g, camp) ==
    LET occupied(loc) == get(g, loc) # None
        enemy(loc) == occupied(loc) /\ h[get(g, loc)].camp # camp
        king(loc) == occupied(loc) /\ h[get(g, loc)].camp = camp
                     /\ (KingGlyphs \cap CharSet(str(h[get(g, loc)]))) # {}
        enemy_locations == SelectSeq(RowMajor, enemy)
        kings == SelectSeq(RowMajor, king)
        king_location == IF kings = <<>> THEN <<>> ELSE kings[Len(kings)]
    IN  <<king_location, enemy_locations>>

(* --------------------------- board assembly --------------------------- *)

\* the put calls of _generate_half_board, in order
HalfBoardPuts(formation) ==
    << <<6, 0, "SOLDIER">>, <<6, 2, "SOLDIER">>, <<6, 4, "SOLDIER">>,
       <<6, 6, "SOLDIER">>, <<6, 8, "SOLDIER">>,
       <<7, 1, "CANNON">>, <<7, 7, "CANNON">>,
       <<8, 4, "GENERAL">>,
       <<9, 3, "GUARD">>, <<9, 5, "GUARD">>,
       <<9, 0, "CHARIOT">>, <<9, 8, "CHARIOT">> >>
    \o
    (CASE formation = "OUTER_ELEPHANT" ->
            << <<9, 1, "ELEPHANT">>, <<9, 2, "HORSE">>,
               <<9, 6, "HORSE">>, <<9, 7, "ELEPHANT">> >>
       [] formation = "LEFT_ELEPHANT" ->
            << <<9, 1, "ELEPHANT">>, <<9, 2, "HORSE">>,
               <<9, 6, "ELEPHANT">>, <<9, 7, "HORSE">> >>
       [] formation = "RIGHT_ELEPHANT" ->
            << <<9, 1, "HORSE">>, <<9, 2, "ELEPHANT">>,
               <<9, 6, "HORSE">>, <<9, 7, "ELEPHANT">> >>
       [] formation = "INNER_ELEPHANT" ->
            << <<9, 1, "HORSE">>, <<9, 2, "ELEPHANT">>,
               <<9, 6, "ELEPHANT">>, <<9, 7, "HORSE">> >>
       [] OTHER -> <<>>)

RECURSIVE PutAll(_, _, _, _)
\* board.put(r, c, Piece(t)) for puts[k..]; a new Piece object per call
PutAll(h, g, puts, k) ==
    IF k > Len(puts) THEN [heap |-> h, grid |-> g]
    ELSE PutAll(Append(h, Piece(puts[k][3], NoCamp)),
                put(g, <<puts[k][1], puts[k][2]>>, Len(h) + 1), puts, k + 1)

\* _generate_half_board
generate_half_board(h, formation) == PutAll(h, EmptyGrid, HalfBoardPuts(formation), 1)

\* the test of the player's camp inverted: the player's own half is flipped
flipsHanInverted(player) == player # "CHO"

\* if player == Camp.CHO: the HAN half-board is the one flipped, else the CHO one
flipsHan(player) == player = "CHO"

\* full_board_from_formations
full_board_from_formations(h, cho_formation, han_formation, player) ==
    LET cho0 == generate_half_board(h, cho_formation)
        han0 == generate_half_board(cho0.heap, han_formation)
        h1 == mark_camp(han0.heap, cho0.grid, "CHO")
        h2 == mark_camp(h1, han0.grid, "HAN")
        cho_half == IF flipsHan(player) THEN cho0.grid ELSE flip(cho0.grid)
        han_half == IF flipsHan(player) THEN flip(han0.grid) ELSE han0.grid
        board == Board(cho_formation, han_formation, player)
    IN  [heap |-> h2,
         board |-> [board EXCEPT !.grid = merge(merge(board.grid, cho_half), han_half)]]

(* ------------------------ the play specification ---------------------- *)

BoardNames == {"b", "c"}

\* the boards the play specification starts from
StartArgs == { <<"OUTER_ELEPHANT", "INNER_ELEPHANT", "CHO">>,
               <<"LEFT_ELEPHANT", "LEFT_ELEPHANT", "HAN">> }

\* the coordinates the callers pass to put, remove and move
PlayLocs == { <<3, 0>>, <<4, 0>>, <<6, 0>> }

\* the pieces the callers create for put
PutPieces == { Piece("SOLDIER", "CHO"), Piece("GENERAL", "HAN") }

Call(op, bd, args, ret, err) ==
    [op |-> op, bd |-> bd, args |-> args, ret |-> ret, err |-> err]

Init ==
    \E a \in StartArgs :
        LET r == full_board_from_formations(<<>>, a[1], a[2], a[3])
        IN  /\ heap = r.heap
            /\ boards = [n \in {"b"} |-> r.board]
            /\ ops = 0
            /\ last = Call("full_board_from_formations", "b", a, None, "none")
            /\ touched = {}

SetGrid(bd, g) == [boards EXCEPT ![bd].grid = g]

\* c = b.copy()
Copy ==
    /\ ops < MaxOps
    /\ boards' = [n \in {"b", "c"} |-> IF n = "c" THEN copy(boards["b"]) ELSE boards[n]]
    /\ ops' = ops + 1
    /\ last' = Call("copy", "b", <<>>, None, "none")
    /\ touched' = {}
    /\ UNCHANGED heap

Put(bd, loc, piece) ==
    /\ ops < MaxOps
    /\ bd \in DOMAIN boards
    /\ heap' = Append(heap, piece)
    /\ boards' = SetGrid(bd, put(boards[bd].grid, loc, Len(heap) + 1))
    /\ ops' = ops + 1
    /\ last' = Call("put", bd, <<loc>>, None, "none")
    /\ touched' = touched \cup {bd}

Remove(bd, loc) ==
    /\ ops < MaxOps
    /\ bd \in DOMAIN boards
    /\ boards' = SetGrid(bd, remove(boards[bd].grid, loc))
    /\ ops' = ops + 1
    /\ last' = Call("remove", bd, <<loc>>, None, "none")
    /\ touched' = touched \cup {bd}
    /\ UNCHANGED heap

Move(bd, origin, dest) ==
    /\ ops < MaxOps
    /\ bd \in DOMAIN boards
    /\ LET r == move(boards[bd].grid, origin, dest)
       IN  /\ boards' = SetGrid(bd, r.grid)
           /\ last' = Call("move", bd, <<origin, dest>>, r.ret, r.err)
    /\ ops' = ops + 1
    /\ touched' = touched \cup {bd}
    /\ UNCHANGED heap

Flip(bd) ==
    /\ ops < MaxOps
    /\ bd \in DOMAIN boards
    /\ boards' = SetGrid(bd, flip(boards[bd].grid))
    /\ ops' = ops + 1
    /\ last' = Call("flip", bd, <<>>, None, "none")
    /\ touched' = touched \cup {bd}
    /\ UNCHANGED heap

Merge(bd, other) ==
    /\ ops < MaxOps
    /\ bd \in DOMAIN boards
    /\ other \in DOMAIN boards
    /\ bd # other
    /\ boards' = SetGrid(bd, merge(boards[bd].grid, boards[other].grid))
    /\ ops' = ops + 1
    /\ last' = Call("merge", bd, <<other>>, None, "none")
    /\ touched' = touched \cup {bd}
    /\ UNCHANGED heap

MarkCamp(bd, camp) ==
    /\ ops < MaxOps
    /\ bd \in DOMAIN boards
    /\ heap' = mark_camp(heap, boards[bd].grid, camp)
    /\ ops' = ops + 1
    /\ last' = Call("mark_camp", bd, <<camp>>, None, "none")
    /\ touched' = touched \cup {bd}
    /\ UNCHANGED boards

IsCheck(bd, camp) ==
    /\ ops < MaxOps
    /\ bd \in DOMAIN boards
    /\ ops' = ops + 1
    /\ last' = Call("is_check", bd, <<camp>>, is_check(heap, boards[bd].grid, camp), "none")
    /\ UNCHANGED <<heap, boards, touched>>

Next ==
    \/ Copy
    \/ \E bd \in BoardNames, loc \in PlayLocs, piece \in PutPieces : Put(bd, loc, piece)
    \/ \E bd \in BoardNames, loc \in PlayLocs : Remove(bd, loc)
    \/ \E bd \in BoardNames, origin \in PlayLocs, dest \in PlayLocs : Move(bd, origin, dest)
    \/ \E bd \in BoardNames : Flip(bd)
    \/ \E bd \in BoardNames, other \in BoardNames : Merge(bd, other)
    \/ \E bd \in BoardNames, camp \in Camps : MarkCamp(bd, camp)
    \/ \E bd \in BoardNames, camp \in Camps : IsCheck(bd, camp)

Spec == Init /\ [][Next]_vars

(* ------------------------ claims on the play specification ------------ *)

Mutators == {"put", "remove", "move", "flip", "merge", "mark_camp"}

EmptyCell == [pieceType |-> "None", camp |-> "None"]

\* what the cells of a grid hold: per cell, empty or the kind and camp of its piece
View(h, g) ==
    [loc \in Coords |-> IF get(g, loc) = None THEN EmptyCell ELSE h[get(g, loc)]]

\* the step is a successful call of move on a board whose origin was occupied
MoveStep(bd, origin, dest) ==
    /\ last'.op = "move"
    /\ last'.bd = bd
    /\ last'.args = <<origin, dest>>
    /\ get(boards[bd].grid, origin) # None

\* the effect C3 describes, for one call
MoveEffect(bd, origin, dest) ==
    LET g == boards[bd].grid
        g2 == boards'[bd].grid
    IN  /\ last'.err = "none"
        /\ last'.ret = get(g, dest)
        /\ get(g2, dest) # None
        /\ heap'[get(g2, dest)] = heap[get(g, origin)]
        /\ get(g2, origin) = None
        /\ \A loc \in Coords \ {origin, dest} : get(g2, loc) = get(g, loc)

\* C3 as stated: for every occupied origin and every dest, move returns the
\* former occupant of dest, dest then holds the piece of origin, origin is
\* empty and every other cell is unchanged.
C3_MoveEveryDest ==
    [][\A bd \in BoardNames, origin \in PlayLocs, dest \in PlayLocs :
          MoveStep(bd, origin, dest) => MoveEffect(bd, origin, dest)]_vars

\* C3 amended: for every occupied origin and every dest other than origin,
\* move returns the former occupant of dest, dest then holds the piece of
\* origin (same kind and camp), origin is empty and every other cell is
\* unchanged; for dest = origin it returns the piece itself, leaves the cell
\* empty and every other cell unchanged.
C3_Move ==
    [][\A bd \in BoardNames, origin \in PlayLocs, dest \in PlayLocs :
          MoveStep(bd, origin, dest) =>
             IF dest # origin THEN MoveEffect(bd, origin, dest)
             ELSE /\ last'.err = "none"
                  /\ last'.ret = get(boards[bd].grid, origin)
                  /\ boards'[bd].grid = remove(boards[bd].grid, origin)]_vars

\* C3 witness: a move onto another, occupied square has returned the captured piece
C3_Witness ==
    /\ last.op = "move"
    /\ last.err = "none"
    /\ last.args[1] # last.args[2]
    /\ last.ret # None
    /\ get(boards[last.bd].grid, last.args[2]) # None
    /\ get(boards[last.bd].grid, last.args[1]) = None

\* C7: move with an empty origin raises (AssertionError, nothing returned)
\* and leaves every cell of every board, and every piece, as it was.
C7_MoveEmptyOrigin ==
    [][\A bd \in BoardNames, origin \in PlayLocs, dest \in PlayLocs :
          (/\ last'.op = "move"
           /\ last'.bd = bd
           /\ last'.args = <<origin, dest>>
           /\ get(boards[bd].grid, origin) = None)
          => (/\ last'.err = "AssertionError"
              /\ last'.ret = None
              /\ boards' = boards
              /\ heap' = heap)]_vars

\* C7 witness: move was refused on an empty origin while dest held a piece
C7_Witness ==
    /\ last.op = "move"
    /\ last.err = "AssertionError"
    /\ get(boards[last.bd].grid, last.args[1]) = None
    /\ get(boards[last.bd].grid, last.args[2]) # None

\* C4: after c = b.copy(), a mutation applied to one of the two boards (the
\* only one mutated since the copy) leaves what every cell of the other
\* board holds (occupancy, kind, camp) unchanged.
C4_CopyIndependent ==
    [][(/\ "c" \in DOMAIN boards
        /\ last'.op \in Mutators
        /\ touched' = {last'.bd})
       => \A other \in BoardNames \ {last'.bd} :
             View(heap', boards'[other].grid) = View(heap, boards[other].grid)]_vars

\* C10: no Piece object is referenced by more than one cell of a board.
C10_PieceExclusive ==
    \A bd \in DOMAIN boards :
        \A i \in DOMAIN heap :
            Cardinality({loc \in Coords : get(boards[bd].grid, loc) = i}) <= 1

Opponent(camp) == IF camp = "CHO" THEN "HAN" ELSE "CHO"

\* C9: is_check(camp) returns (coordinate of the GENERAL of camp, row-major
\* list of the coordinates of the pieces of the opposing camp).
C9_IsCheckResult ==
    last.op = "is_check" =>
        LET camp == last.args[1]
            g == boards[last.bd].grid
            ofCamp(k, loc) == get(g, loc) # None /\ heap[get(g, loc)].camp = k
            opposing(loc) == ofCamp(Opponent(camp), loc)
            general(loc) == ofCamp(camp, loc) /\ heap[get(g, loc)].pieceType = "GENERAL"
        IN  /\ last.ret[2] = SelectSeq(RowMajor, opposing)
            /\ (\E loc \in Coords : general(loc))
                  => (last.ret[1] \in Coords /\ general(last.ret[1]))

(* ------------------------- notation (FEN) parsing --------------------- *)

Digits == {"0", "1", "2", "3", "4", "5", "6", "7", "8", "9"}

\* str.isdigit on one character
isdigit(char) == char \in Digits

\* int(char) of a digit
int(char) ==
    CASE char = "0" -> 0 [] char = "1" -> 1 [] char = "2" -> 2 [] char = "3" -> 3
      [] char = "4" -> 4 [] char = "5" -> 5 [] char = "6" -> 6 [] char = "7" -> 7
      [] char = "8" -> 8 [] char = "9" -> 9

\* the upper-case letters of the inputs, with their lower-case forms
LowerOf == [c \in {"K", "A", "E", "H", "C", "R", "P", "X"} |->
              CASE c = "K" -> "k" [] c = "A" -> "a" [] c = "E" -> "e" [] c = "H" -> "h"
                [] c = "C" -> "c" [] c = "R" -> "r" [] c = "P" -> "p" [] c = "X" -> "x"]

\* str.isupper on one character
isupper(char) == char \in DOMAIN LowerOf

\* str.lower on one character
lower(char) == IF char \in DOMAIN LowerOf THEN LowerOf[char] ELSE char

piece_map == [c \in {"k", "a", "e", "h", "c", "r", "p"} |->
                CASE c = "k" -> "GENERAL" [] c = "a" -> "GUARD" [] c = "e" -> "ELEPHANT"
                  [] c = "h" -> "HORSE" [] c = "c" -> "CANNON" [] c = "r" -> "CHARIOT"
                  [] c = "p" -> "SOLDIER"]

RECURSIVE SplitAt(_, _, _, _)
\* str.split(sep): the pieces between the separators, empty pieces kept
SplitAt(s, sep, k, cur) ==
    IF k > Len(s) THEN <<cur>>
    ELSE IF s[k] = sep THEN <<cur>> \o SplitAt(s, sep, k + 1, <<>>)
    ELSE SplitAt(s, sep, k + 1, Append(cur, s[k]))

split(s, sep) == SplitAt(s, sep, 1, <<>>)

\* str.split() without a separator: the runs of non-blank characters
splitWhitespace(s) == SelectSeq(split(s, " "), LAMBDA part : part # <<>>)

Failed(h, g, err) == [heap |-> h, grid |-> g, err |-> err]

\* the camp of a piece letter: upper case is CHO
campOfHanForUpper(char) == IF isupper(char) THEN "HAN" ELSE "CHO"

campOf(char) == IF isupper(char) THEN "CHO" ELSE "HAN"

RECURSIVE ParseChars(_, _, _, _, _, _)
\* for char in rows[row]: ...
ParseChars(h, g, row, chars, k, col) ==
    IF k > Len(chars) THEN Failed(h, g, "none")
    ELSE LET char == chars[k] IN
         IF isdigit(char) THEN ParseChars(h, g, row, chars, k + 1, col + int(char))
         ELSE IF lower(char) \notin DOMAIN piece_map THEN Failed(h, g, "KeyError")
         ELSE IF col > MAX_COL THEN Failed(h, g, "IndexError")
         ELSE ParseChars(Append(h, Piece(piece_map[lower(char)], campOf(char))),
                         put(g, <<row, col>>, Len(h) + 1), row, chars, k + 1, col + 1)

RECURSIVE ParseRows(_, _, _, _)
\* for row in range(NUM_ROWS): ...
ParseRows(h, g, rows, row) ==
    IF row >= NUM_ROWS THEN Failed(h, g, "none")
    ELSE IF row + 1 > Len(rows) THEN Failed(h, g, "IndexError")
    ELSE LET r == ParseChars(h, g, row, rows[row + 1], 1, 0)
         IN  IF r.err # "none" THEN r ELSE ParseRows(r.heap, r.grid, rows, row + 1)

\* board_from_FEN: the assembled board, emptied, then filled from the notation
board_from_FEN(h, cho_formation, han_formation, fen, player) ==
    LET full == full_board_from_formations(h, cho_formation, han_formation, player)
        cleared == [i \in 0..9 |-> [i2 \in 0..8 |-> None]]
        parts == splitWhitespace(fen)
    IN  IF parts = <<>> THEN [heap |-> full.heap, board |-> full.board, err |-> "IndexError"]
        ELSE LET r == ParseRows(full.heap, cleared, split(parts[1], "/"), 0)
             IN  [heap |-> r.heap, board |-> [full.board EXCEPT !.grid = r.grid],
                  err |-> r.err]

(* ----------------------- the construction specification --------------- *)

\* the rows of the opening position, HAN (lower case) on top
StartRows ==
    << <<"r", "h", "e", "a", "1", "a", "e", "h", "r">>,
       <<"4", "k", "4">>,
       <<"1", "c", "5", "c", "1">>,
       <<"p", "1", "p", "1", "p", "1", "p", "1", "p">>,
       <<"9">>,
       <<"9">>,
       <<"P", "1", "P", "1", "P", "1", "P", "1", "P">>,
       <<"1", "C", "5", "C", "1">>,
       <<"4", "K", "4">>,
       <<"R", "H", "E", "A", "1", "A", "E", "H", "R">> >>

\* the rows one row of the opening position is replaced by
RowPool ==
    { <<"9">>, <<"4", "5">>, <<"0", "9">>, <<"4", "K", "4">>, <<"3", "a", "h", "4">>,
      <<"8">>, <<"4", "k", "3">>, <<>>,
      <<"4", "k", "5">>, <<"9", "1">>, <<"9", "p">>,
      <<"r", "h", "e", "a", "k", "a", "e", "h", "r", "R">>,
      <<"4", "x", "4">>, <<"4", "X", "4">>, <<"4", "-", "4">> }

\* the formations and player board_from_FEN is called with
FenArgs == { <<"OUTER_ELEPHANT", "INNER_ELEPHANT", "CHO">>,
             <<"LEFT_ELEPHANT", "RIGHT_ELEPHANT", "HAN">>,
             <<"INNER_ELEPHANT", "LEFT_ELEPHANT", "HAN">>,
             <<"RIGHT_ELEPHANT", "OUTER_ELEPHANT", "CHO">> }

FenTails == { <<>>, <<" ", "w">> }

\* the notation inputs: the opening position with one row replaced, cut or
\* extended to n rows, with or without a trailing field
FenInputs ==
    { [rows |-> [i \in 1..n |-> IF i = k THEN row
                                ELSE IF i <= NUM_ROWS THEN StartRows[i] ELSE <<"9">>],
       tail |-> tail] :
         n \in (NUM_ROWS - 1)..MaxFenRows, k \in 1..NUM_ROWS, row \in RowPool,
         tail \in FenTails }

RECURSIVE Join(_, _)
\* the rows joined by '/'
Join(rows, k) ==
    IF k > Len(rows) THEN <<>>
    ELSE IF k = Len(rows) THEN rows[k]
    ELSE rows[k] \o <<"/">> \o Join(rows, k + 1)

FenText(inp) == Join(inp.rows, 1) \o inp.tail

InitBuild ==
    /\ heap = <<>>
    /\ boards = <<>>
    /\ ops = 0
    /\ last = Call("none", "", <<>>, None, "none")
    /\ touched = {}

FullBoardFromFormations(cho_formation, han_formation, player) ==
    /\ ops = 0
    /\ \E r \in {full_board_from_formations(heap, cho_formation, han_formation, player)} :
           /\ heap' = r.heap
           /\ boards' = [n \in {"b"} |-> r.board]
    /\ ops' = 1
    /\ last' = Call("full_board_from_formations", "b",
                    <<cho_formation, han_formation, player>>, None, "none")
    /\ UNCHANGED touched

BoardFromFEN(cho_formation, han_formation, inp, player) ==
    /\ ops = 0
    /\ \E r \in {board_from_FEN(heap, cho_formation, han_formation, FenText(inp), player)} :
           /\ heap' = r.heap
           /\ boards' = IF r.err = "none" THEN [n \in {"b"} |-> r.board] ELSE boards
           /\ last' = Call("board_from_FEN", "b",
                           <<cho_formation, han_formation, inp, player>>, None, r.err)
    /\ ops' = 1
    /\ UNCHANGED touched

NextBuild ==
    \/ \E cf \in Formations, hf \in Formations, player \in Camps :
          FullBoardFromFormations(cf, hf, player)
    \/ \E a \in FenArgs, inp \in FenInputs : BoardFromFEN(a[1], a[2], inp, a[3])

SpecBuild == InitBuild /\ [][NextBuild]_vars

(* --------------------- claims on the construction specification ------- *)

Built == last.op = "full_board_from_formations"

\* the piece record at a cell of board b (EmptyCell when empty)
CellOf(loc) == View(heap, boards["b"].grid)[loc]

\* (9 - r, 8 - c)
Rot(loc) == <<9 - loc[1], 8 - loc[2]>>

\* the squares next to the back corners that hold the horses and elephants
FlankSquares == {0, 9} \X {1, 2, 6, 7}

\* C1 as stated: on the assembled board every piece of the non-bottom camp
\* has at (9-r, 8-c) a piece of the same PieceType of the bottom camp, and
\* every piece of the bottom camp one of the non-bottom camp.
C1_Symmetric ==
    Built =>
        \A loc \in Coords :
            CellOf(loc) # EmptyCell =>
                /\ CellOf(loc).camp \in Camps
                /\ CellOf(Rot(loc)).camp = Opponent(CellOf(loc).camp)
                /\ CellOf(Rot(loc)).pieceType = CellOf(loc).pieceType

\* C1 amended: every piece has at (9-r, 8-c) a piece of the other camp; the
\* PieceType is the same at every cell when cho_formation = han_formation,
\* and otherwise at every cell outside the flank squares (rows 0 and 9,
\* columns 1, 2, 6, 7), where both cells hold a HORSE or an ELEPHANT.
C1_SymmetricOutsideFlanks ==
    Built =>
        \A loc \in Coords :
            CellOf(loc) # EmptyCell =>
                /\ CellOf(loc).camp \in Camps
                /\ CellOf(Rot(loc)).camp = Opponent(CellOf(loc).camp)
                /\ IF last.args[1] = last.args[2] \/ loc \notin FlankSquares
                   THEN CellOf(Rot(loc)).pieceType = CellOf(loc).pieceType
                   ELSE {CellOf(loc).pieceType, CellOf(Rot(loc)).pieceType}
                           \subseteq {"HORSE", "ELEPHANT"}

\* C1 witness: a board assembled from two different formations, HAN at the
\* bottom, whose corner flank squares hold different kinds
C1_Witness ==
    /\ Built
    /\ last.args[1] # last.args[2]
    /\ last.args[3] = "HAN"
    /\ CellOf(<<9, 1>>).camp = "HAN"
    /\ CellOf(<<0, 7>>).camp = "CHO"
    /\ CellOf(<<9, 1>>).pieceType # CellOf(<<0, 7>>).pieceType

C2_Scenario == Built /\ last.args = <<"OUTER_ELEPHANT", "INNER_ELEPHANT", "CHO">>

\* C2 as stated: OUTER_ELEPHANT for CHO, INNER_ELEPHANT for HAN, CHO at the
\* bottom gives a CHO ELEPHANT at (9,1), a HAN ELEPHANT at (0,7) and HAN
\* HORSEs at (0,6) and (0,1).
C2_ScenarioAsStated ==
    C2_Scenario =>
        /\ CellOf(<<9, 1>>) = Piece("ELEPHANT", "CHO")
        /\ CellOf(<<0, 7>>) = Piece("ELEPHANT", "HAN")
        /\ CellOf(<<0, 6>>) = Piece("HORSE", "HAN")
        /\ CellOf(<<0, 1>>) = Piece("HORSE", "HAN")

\* C2 amended: the same call gives a CHO ELEPHANT at (9,1), HAN HORSEs at
\* (0,7) and (0,1) and HAN ELEPHANTs at (0,6) and (0,2).
C2_ScenarioPlacement ==
    C2_Scenario =>
        /\ CellOf(<<9, 1>>) = Piece("ELEPHANT", "CHO")
        /\ CellOf(<<0, 7>>) = Piece("HORSE", "HAN")
        /\ CellOf(<<0, 1>>) = Piece("HORSE", "HAN")
        /\ CellOf(<<0, 6>>) = Piece("ELEPHANT", "HAN")
        /\ CellOf(<<0, 2>>) = Piece("ELEPHANT", "HAN")

\* C2 witness: the scenario's board exists, with its HAN general on row 1
C2_Witness == C2_Scenario /\ CellOf(<<1, 4>>) = Piece("GENERAL", "HAN")

\* the letters of the notation and the pieces they stand for
NotationPiece ==
    [c \in {"k", "a", "e", "h", "c", "r", "p", "K", "A", "E", "H", "C", "R", "P"} |->
        CASE c = "k" -> Piece("GENERAL", "HAN")  [] c = "K" -> Piece("GENERAL", "CHO")
          [] c = "a" -> Piece("GUARD", "HAN")    [] c = "A" -> Piece("GUARD", "CHO")
          [] c = "e" -> Piece("ELEPHANT", "HAN") [] c = "E" -> Piece("ELEPHANT", "CHO")
          [] c = "h" -> Piece("HORSE", "HAN")    [] c = "H" -> Piece("HORSE", "CHO")
          [] c = "c" -> Piece("CANNON", "HAN")   [] c = "C" -> Piece("CANNON", "CHO")
          [] c = "r" -> Piece("CHARIOT", "HAN")  [] c = "R" -> Piece("CHARIOT", "CHO")
          [] c = "p" -> Piece("SOLDIER", "HAN")  [] c = "P" -> Piece("SOLDIER", "CHO")]

RECURSIVE Expand(_, _)
\* the cells a row of notation describes: n empty cells per digit n, one
\* piece per letter
Expand(row, k) ==
    IF k > Len(row) THEN <<>>
    ELSE IF row[k] \in Digits THEN [i \in 1..int(row[k]) |-> EmptyCell] \o Expand(row, k + 1)
    ELSE IF row[k] \in DOMAIN NotationPiece THEN <<NotationPiece[row[k]]>> \o Expand(row, k + 1)
    ELSE <<EmptyCell>> \o Expand(row, k + 1)

RecognisedRow(row) == \A k \in DOMAIN row : row[k] \in Digits \cup DOMAIN NotationPiece

WellFormed(rows) ==
    /\ Len(rows) = 10
    /\ \A i \in DOMAIN rows : RecognisedRow(rows[i]) /\ Len(Expand(rows[i], 1)) = 9

FromFEN == last.op = "board_from_FEN"

\* C5: board_from_FEN raises, and returns no board, whenever the notation
\* has not exactly 10 rows, or a row whose cell count is not 9, or a piece
\* character that is none of k a e h c r p in either case.
C5_MalformedRejected ==
    (FromFEN /\ ~WellFormed(last.args[3].rows))
        => (last.err # "none" /\ boards = <<>>)

possibleMovesSlip(pieceType) ==
    IF pieceType = "HORSE"
    THEN << << <<0, 1>>, <<-1, 1>> >>, << <<0, 1>>, <<1, 1>> >>,
            << <<1, 0>>, <<0, 2>> >>,  << <<1, 0>>, <<1, -1>> >>,
            << <<0, -1>>, <<-1, -1>> >>, << <<0, -1>>, <<1, -1>> >>,
            << <<-1, 0>>, <<-1, 1>> >>, << <<-1, 0>>, <<-1, -1>> >> >>
    ELSE IF pieceType = "ELEPHANT"
    THEN << << <<0, 1>>, <<-1, 1>>, <<-1, 1>> >>, << <<0, 1>>, <<1, 1>>, <<1, 1>> >>,
            << <<1, 0>>, <<1, 1>>, <<1, 1>> >>,  << <<1, 0>>, <<1, -1>>, <<1, -1>> >>,
            << <<0, -1>>, <<-1, -1>>, <<-1, -1>> >>, << <<0, -1>>, <<1, -1>>, <<1, -1>> >>,
            << <<-1, 0>>, <<-1, 1>>, <<-1, 1>> >>, << <<-1, 0>>, <<-1, -1>>, <<-1, -1>> >> >>
    ELSE <<>>

\* Piece.possibleMoves: the step patterns of a piece kind, in order
possibleMoves(pieceType) ==
    IF pieceType = "HORSE"
    THEN << << <<0, 1>>, <<-1, 1>> >>, << <<0, 1>>, <<1, 1>> >>,
            << <<1, 0>>, <<1, 1>> >>,  << <<1, 0>>, <<1, -1>> >>,
            << <<0, -1>>, <<-1, -1>> >>, << <<0, -1>>, <<1, -1>> >>,
            << <<-1, 0>>, <<-1, 1>> >>, << <<-1, 0>>, <<-1, -1>> >> >>
    ELSE IF pieceType = "ELEPHANT"
    THEN << << <<0, 1>>, <<-1, 1>>, <<-1, 1>> >>, << <<0, 1>>, <<1, 1>>, <<1, 1>> >>,
            << <<1, 0>>, <<1, 1>>, <<1, 1>> >>,  << <<1, 0>>, <<1, -1>>, <<1, -1>> >>,
            << <<0, -1>>, <<-1, -1>>, <<-1, -1>> >>, << <<0, -1>>, <<1, -1>>, <<1, -1>> >>,
            << <<-1, 0>>, <<-1, 1>>, <<-1, 1>> >>, << <<-1, 0>>, <<-1, -1>>, <<-1, -1>> >> >>
    ELSE <<>>

\* Grid.__init__ accepts (row, col): neither range check raises
GridValid(loc) ==
    /\ ~(loc[1] < MIN_ROW \/ loc[1] > MAX_ROW)
    /\ ~(loc[2] < MIN_COL \/ loc[2] > MAX_COL)

RECURSIVE Walk(_, _, _)
\* the squares reached by walking the steps pattern[k..] from `from`
Walk(from, pattern, k) ==
    IF k > Len(pattern) THEN <<>>
    ELSE LET next == <<from[1] + pattern[k][1], from[2] + pattern[k][2]>>
         IN  <<next>> \o Walk(next, pattern, k + 1)

\* a pattern yields its final square: every square of the walk is on the
\* board, all but the last are empty, the last holds no piece of the mover's camp
PatternOpen(h, g, origin, pattern) ==
    LET w == Walk(origin, pattern, 1)
    IN  /\ \A k \in DOMAIN w : GridValid(w[k])
        /\ \A k \in 1..(Len(w) - 1) : get(g, w[k]) = None
        /\ \/ get(g, w[Len(w)]) = None
           \/ h[get(g, w[Len(w)])].camp # h[get(g, origin)].camp

\* the final squares of the patterns that are not blocked
LegalDestinations(h, g, origin) ==
    LET patterns == possibleMoves(h[get(g, origin)].pieceType)
    IN  { Walk(origin, patterns[i], 1)[Len(patterns[i])] :
            i \in { j \in DOMAIN patterns : PatternOpen(h, g, origin, patterns[j]) } }

(* ------------------------- the leaper specification ------------------- *)

LeaperKinds == {"HORSE", "ELEPHANT"}

\* the camp of the leaper; the placed pieces are of both camps
LeaperCamps == {"CHO"}

\* the coordinate of the leaper under test
LeaperOrigin == last.args[1]

\* the squares of the walk of one pattern
WalkSet(origin, pattern) ==
    LET w == Walk(origin, pattern, 1) IN {w[k] : k \in DOMAIN w}

\* the on-board squares on the walks of the leaper's patterns
WalkSquares ==
    LET patterns == possibleMoves(heap[1].pieceType)
        all == UNION {WalkSet(LeaperOrigin, patterns[i]) : i \in DOMAIN patterns}
    IN  {sq \in all : GridValid(sq)}

\* an empty board with the leaper put at origin; the caller holds the
\* leaper and one further piece per camp to place around it; ops counts
\* the squares that hold a placed piece
InitLeaper ==
    \E origin \in Coords, kind \in LeaperKinds, camp \in LeaperCamps :
        /\ heap = <<Piece(kind, camp), Piece("SOLDIER", "CHO"), Piece("SOLDIER", "HAN")>>
        /\ boards = [n \in {"b"} |->
                        [Board("OUTER_ELEPHANT", "OUTER_ELEPHANT", "CHO")
                            EXCEPT !.grid = put(EmptyGrid, origin, 1)]]
        /\ ops = 0
        /\ last = Call("put", "b", <<origin>>, None, "none")
        /\ touched = {}

\* board.put(row, col, piece) on an empty square of a walk
PutBlocker(loc, piece) ==
    /\ ops < MaxBlockers
    /\ get(boards["b"].grid, loc) = None
    /\ boards' = SetGrid("b", put(boards["b"].grid, loc, piece))
    /\ ops' = ops + 1
    /\ UNCHANGED <<heap, last, touched>>

\* board.remove(row, col) of a placed piece
RemoveBlocker(loc) ==
    /\ get(boards["b"].grid, loc) \notin {None, 1}
    /\ boards' = SetGrid("b", remove(boards["b"].grid, loc))
    /\ ops' = ops - 1
    /\ UNCHANGED <<heap, last, touched>>

NextLeaper ==
    \/ \E loc \in WalkSquares, piece \in {2, 3} : PutBlocker(loc, piece)
    \/ \E loc \in WalkSquares : RemoveBlocker(loc)

SpecLeaper == InitLeaper /\ [][NextLeaper]_vars

(* ------------------------ claims on the leaper specification ---------- *)

Leaper == heap[get(boards["b"].grid, LeaperOrigin)]

OnBoard(loc) == loc[1] \in 0..9 /\ loc[2] \in 0..8

Plus(a, b) == <<a[1] + b[1], a[2] + b[2]>>

IsEmpty(loc) == get(boards["b"].grid, loc) = None

SameCamp(loc) == ~IsEmpty(loc) /\ heap[get(boards["b"].grid, loc)].camp = Leaper.camp

\* the condition of C8 for one pattern, by the number of its steps
PatternYields(pattern) ==
    LET s1 == Plus(LeaperOrigin, pattern[1])
        s2 == Plus(s1, pattern[2])
    IN  IF Len(pattern) = 2
        THEN /\ OnBoard(s1) /\ IsEmpty(s1)
             /\ OnBoard(s2) /\ ~SameCamp(s2)
        ELSE LET s3 == Plus(s2, pattern[3])
             IN  /\ OnBoard(s1) /\ IsEmpty(s1)
                 /\ OnBoard(s2) /\ IsEmpty(s2)
                 /\ OnBoard(s3) /\ ~SameCamp(s3)

FinalOf(pattern) ==
    IF Len(pattern) = 2 THEN Plus(Plus(LeaperOrigin, pattern[1]), pattern[2])
    ELSE Plus(Plus(Plus(LeaperOrigin, pattern[1]), pattern[2]), pattern[3])

\* C8: for a HORSE or ELEPHANT at any origin, the final square of a pattern
\* is a legal destination if and only if every intermediate square of its
\* walk is on the board and empty and the final square is on the board and
\* holds no piece of the leaper's camp; so a piece of either camp on an
\* intermediate square removes the destination, and its removal restores it
\* unless the final square holds a piece of the leaper's camp.
C8_LeaperDestinations ==
    LET patterns == possibleMoves(Leaper.pieceType)
        legal == LegalDestinations(heap, boards["b"].grid, LeaperOrigin)
    IN  /\ Len(patterns) = 8
        /\ \A i \in DOMAIN patterns :
              /\ Len(patterns[i]) = (IF Leaper.pieceType = "HORSE" THEN 2 ELSE 3)
              /\ (FinalOf(patterns[i]) \in legal) <=> PatternYields(patterns[i])
        /\ legal \subseteq Coords

\* C8 witness: a pattern whose final square is on the board and empty
\* yields no destination because a piece of the leaper's camp, and another
\* one because a piece of the other camp, stands on an intermediate square
C8_Witness ==
    LET patterns == possibleMoves(Leaper.pieceType)
        legal == LegalDestinations(heap, boards["b"].grid, LeaperOrigin)
        blockedBy(i, camp) ==
            /\ OnBoard(FinalOf(patterns[i]))
            /\ IsEmpty(FinalOf(patterns[i]))
            /\ FinalOf(patterns[i]) \notin legal
            /\ \E k \in 1..(Len(patterns[i]) - 1) :
                  LET sq == Walk(LeaperOrigin, patterns[i], 1)[k]
                  IN  OnBoard(sq) /\ ~IsEmpty(sq)
                      /\ heap[get(boards["b"].grid, sq)].camp = camp
    IN  /\ \E i \in DOMAIN patterns : blockedBy(i, Leaper.camp)
        /\ \E i \in DOMAIN patterns : blockedBy(i, Opponent(Leaper.camp))

====
